---- MODULE Spec2Model ----
(***************************************************************************)
(* A model of openage's export entity objects:                             *)
(*   - TerrainMetadata (formats/terrain_metadata.py): the collector of     *)
(*     terrain metadata and its dump() into the .terrain text format;      *)
(*   - Texture (texture.py): the constructor that turns the frames of a    *)
(*     media source into the flat list of subtextures.                     *)
(*                                                                         *)
(* Text is modelled as a sequence of lines, every line terminated by "\n"  *)
(* in the code; a line is the sequence of its space-separated words and    *)
(* the blank line is <<>>.                                                 *)
(***************************************************************************)
EXTENDS Integers, Sequences, FiniteSets, TLC

VARIABLES
    scalefactor,   \* TerrainMetadata.scalefactor
    image_files,   \* TerrainMetadata.image_files (insertion-ordered dict)
    blendtable,    \* TerrainMetadata.blendtable (None until set)
    layers,        \* TerrainMetadata.layers (insertion-ordered dict)
    frames,        \* TerrainMetadata.frames (list)
    ret,           \* outcome of the dump() call made in the current state, if any
    last_factor,   \* history: argument of the latest set_scalefactor call
    frame_calls,   \* history: argument tuples of the add_frame calls, in call order
    img_first,     \* history: image ids in the order of their first add_image
    img_latest,    \* history: image id -> filename of its latest add_image
    lay_first,     \* history: layer ids in the order of their first add_layer
    lay_latest,    \* history: layer id -> attributes of its latest add_layer
    overwritten,   \* history: "image" / "layer" once an id was added a second time
    tex_pc,        \* Texture.__init__: position of the constructor
    tex_input,     \* Texture.__init__: the arguments input_data, palettes, custom_cutter
    tex_frames,    \* Texture.frames
    tex_idx,       \* Texture.__init__: number of main_frames already iterated
    tex_exc,       \* Texture.__init__: the exception that ended it, if any
    cut_log        \* history: what _to_subtextures returned for each frame iterated

hist_vars == <<last_factor, frame_calls, img_first, img_latest, lay_first,
               lay_latest, overwritten>>
meta_vars == <<scalefactor, image_files, blendtable, layers, frames, ret,
               last_factor, frame_calls, img_first, img_latest, lay_first,
               lay_latest, overwritten>>
tex_vars == <<tex_pc, tex_input, tex_frames, tex_idx, tex_exc, cut_log>>
vars == <<scalefactor, image_files, blendtable, layers, frames, ret,
          last_factor, frame_calls, img_first, img_latest, lay_first,
          lay_latest, overwritten,
          tex_pc, tex_input, tex_frames, tex_idx, tex_exc, cut_log>>

-----------------------------------------------------------------------------
(* Bounds of the model.                                                    *)

MaxFrames == 2
MaxMainFrames == 2
MaxPieces == 2

-----------------------------------------------------------------------------
(* Python values.  A float is held in halves (h = 2 * value), which is     *)
(* enough for 0.0, 0.5, 1.0, 1.5, 2.0, ...                                 *)

None == [t |-> "None"]
PyInt(n) == [t |-> "int", i |-> n]
PyFloat(halves) == [t |-> "float", h |-> halves]
PyStr(chars) == [t |-> "str", s |-> chars]
PyEnum(val) == [t |-> "LayerMode", value |-> val]
PyDict(entries) == [t |-> "dict", d |-> entries]

LayerMode_OFF == PyEnum("off")
LayerMode_LOOP == PyEnum("loop")

FORMAT_VERSION == "1"

\* float(x) for an int or a float.
float(x) ==
    IF x.t = "int" THEN PyFloat(2 * x.i) ELSE x

\* str(x), as an f-string or str() formats the value.
str(x) ==
    CASE x.t = "None" -> "None"
      [] x.t = "int" -> ToString(x.i)
      [] x.t = "float" ->
            (IF x.h < 0 THEN "-" ELSE "")
            \o ToString((IF x.h < 0 THEN -x.h ELSE x.h) \div 2)
            \o (IF x.h % 2 = 0 THEN ".0" ELSE ".5")
      [] x.t = "str" -> x.s
      [] x.t = "LayerMode" -> "LayerMode." \o x.value

\* bool(x): the truth value an `if x:` tests.
truthy_not_none_mutant(x) == x.t # "None"

truthy(x) ==
    CASE x.t = "None" -> FALSE
      [] x.t = "int" -> x.i # 0
      [] x.t = "float" -> x.h # 0
      [] x.t = "str" -> x.s # ""
      [] x.t = "LayerMode" -> TRUE

-----------------------------------------------------------------------------
(* A dict, which keeps its keys in insertion order: a sequence of entries  *)
(* [key, val] with distinct keys.                                          *)

Range(seq) == {seq[n] : n \in 1..Len(seq)}

DictKeys(d) == [n \in 1..Len(d) |-> d[n].key]
DictValues(d) == [n \in 1..Len(d) |-> d[n].val]
DictHas(d, k) == \E n \in 1..Len(d) : d[n].key = k
DictGet(d, k) == d[CHOOSE n \in 1..Len(d) : d[n].key = k].val

\* d[k] = v: a new key goes to the end, a present key keeps its place.
DictSet_reinsert_mutant(d, k, v) ==
    SelectSeq(d, LAMBDA e : e.key # k) \o <<[key |-> k, val |-> v]>>

DictSet(d, k, v) ==
    IF DictHas(d, k)
    THEN [n \in 1..Len(d) |-> IF d[n].key = k THEN [key |-> k, val |-> v] ELSE d[n]]
    ELSE d \o <<[key |-> k, val |-> v]>>

-----------------------------------------------------------------------------
(* TerrainMetadata                                                         *)

NoCall == [kind |-> "nocall"]
Return(text) == [kind |-> "return", text |-> text]
Raise(exc) == [kind |-> "raise", exc |-> exc]

MetaInit ==
    /\ scalefactor = PyFloat(2)
    /\ image_files = <<>>
    /\ blendtable = None
    /\ layers = <<>>
    /\ frames = <<>>
    /\ ret = NoCall
    /\ last_factor = None
    /\ frame_calls = <<>>
    /\ img_first = <<>>
    /\ img_latest = <<>>
    /\ lay_first = <<>>
    /\ lay_latest = <<>>
    /\ overwritten = {}

add_image(img_id, filename) ==
    /\ image_files' = DictSet(image_files, img_id,
                              [image_id |-> img_id, filename |-> filename])
    /\ ret' = NoCall
    /\ img_first' = IF img_id \in Range(img_first) THEN img_first
                    ELSE Append(img_first, img_id)
    /\ img_latest' = (img_id :> filename) @@ img_latest
    /\ overwritten' = IF img_id \in Range(img_first) THEN overwritten \cup {"image"}
                      ELSE overwritten
    /\ UNCHANGED <<scalefactor, blendtable, layers, frames, last_factor, frame_calls,
                   lay_first, lay_latest>>

add_layer(layer_id, mode, position, time_per_frame, replay_delay) ==
    /\ layers' = DictSet(layers, layer_id,
                         [layer_id |-> layer_id,
                          mode |-> mode,
                          position |-> position,
                          time_per_frame |-> time_per_frame,
                          replay_delay |-> replay_delay])
    /\ ret' = NoCall
    /\ lay_first' = IF layer_id \in Range(lay_first) THEN lay_first
                    ELSE Append(lay_first, layer_id)
    /\ lay_latest' = (layer_id :> <<mode, position, time_per_frame, replay_delay>>)
                     @@ lay_latest
    /\ overwritten' = IF layer_id \in Range(lay_first) THEN overwritten \cup {"layer"}
                      ELSE overwritten
    /\ UNCHANGED <<scalefactor, image_files, blendtable, frames, last_factor, frame_calls,
                   img_first, img_latest>>

\* The frame record is a dict; args is the tuple of the nine arguments in
\* the order of the signature.
FrameKeys ==
    <<"frame_idx", "layer_id", "img_id", "xpos", "ypos",
      "xsize", "ysize", "priority", "blend_mode">>

FrameDict(args) ==
    [n \in 1..Len(FrameKeys) |-> [key |-> FrameKeys[n], val |-> args[n]]]

add_frame_dedup_mutant(args) ==
    /\ Len(frames) < MaxFrames
    /\ frames' = IF \E n \in 1..Len(frames) : frames[n] = FrameDict(args)
                 THEN frames
                 ELSE Append(frames, FrameDict(args))
    /\ frame_calls' = Append(frame_calls, args)
    /\ ret' = NoCall
    /\ UNCHANGED <<scalefactor, image_files, blendtable, layers, last_factor,
                   img_first, img_latest, lay_first, lay_latest, overwritten>>

add_frame(args) ==
    /\ Len(frames) < MaxFrames
    /\ frames' = Append(frames, FrameDict(args))
    /\ frame_calls' = Append(frame_calls, args)
    /\ ret' = NoCall
    /\ UNCHANGED <<scalefactor, image_files, blendtable, layers, last_factor,
                   img_first, img_latest, lay_first, lay_latest, overwritten>>

set_blendtable(table_id, filename) ==
    /\ blendtable' = [table_id |-> table_id, filename |-> filename]
    /\ ret' = NoCall
    /\ UNCHANGED <<scalefactor, image_files, layers, frames>>
    /\ UNCHANGED hist_vars

set_scalefactor_nofloat_mutant(factor) ==
    /\ scalefactor' = factor
    /\ last_factor' = factor
    /\ ret' = NoCall
    /\ UNCHANGED <<image_files, blendtable, layers, frames, frame_calls,
                   img_first, img_latest, lay_first, lay_latest, overwritten>>

set_scalefactor(factor) ==
    /\ scalefactor' = float(factor)
    /\ last_factor' = factor
    /\ ret' = NoCall
    /\ UNCHANGED <<image_files, blendtable, layers, frames, frame_calls,
                   img_first, img_latest, lay_first, lay_latest, overwritten>>

\* The line of one layer, as dump() builds it clause by clause.
LayerLine(layer) ==
    <<"layer", str(PyInt(layer.layer_id))>>
    \o (IF truthy(layer.mode) THEN <<"mode=" \o layer.mode.value>> ELSE <<>>)
    \o (IF truthy(layer.position)
        THEN <<"position=" \o str(layer.position)>> ELSE <<>>)
    \o (IF truthy(layer.time_per_frame)
        THEN <<"time_per_frame=" \o str(layer.time_per_frame)>> ELSE <<>>)
    \o (IF truthy(layer.replay_delay)
        THEN <<"replay_delay=" \o str(layer.replay_delay)>> ELSE <<>>)

ImageLine(image) ==
    <<"imagefile", str(PyInt(image.image_id)), image.filename>>

\* 'frame' and the str() of frame.values(), joined by spaces.
FrameLine(frame) ==
    <<"frame">> \o [n \in 1..Len(frame) |-> str(PyInt(DictValues(frame)[n]))]

\* dump(): the text, or the TypeError of subscripting the None blendtable,
\* which discards the text built so far.
dump_partial_mutant ==
    LET header == << <<"#", "openage", "terrain", "definition", "file">>, <<>> >>
        version == << <<"version", FORMAT_VERSION>>, <<>> >>
        images == [n \in 1..Len(image_files) |-> ImageLine(DictValues(image_files)[n])]
                  \o << <<>> >>
    IN  IF blendtable = None
        THEN Return(header \o version \o images)
        ELSE Return(header \o version \o images
                    \o << <<"blendtable", str(PyInt(blendtable.table_id)),
                            blendtable.filename>>, <<>> >>
                    \o << <<"scalefactor", str(scalefactor)>>, <<>> >>
                    \o [n \in 1..Len(layers) |-> LayerLine(DictValues(layers)[n])]
                    \o << <<>> >>
                    \o [n \in 1..Len(frames) |-> FrameLine(frames[n])])

dump_no_separator_mutant ==
    LET header == << <<"#", "openage", "terrain", "definition", "file">>, <<>> >>
        version == << <<"version", FORMAT_VERSION>>, <<>> >>
        images == [n \in 1..Len(image_files) |-> ImageLine(DictValues(image_files)[n])]
                  \o << <<>> >>
    IN  IF blendtable = None
        THEN Raise("TypeError")
        ELSE Return(header \o version \o images
                    \o << <<"blendtable", str(PyInt(blendtable.table_id)),
                            blendtable.filename>>, <<>> >>
                    \o << <<"scalefactor", str(scalefactor)>>, <<>> >>
                    \o [n \in 1..Len(layers) |-> LayerLine(DictValues(layers)[n])]
                    \o [n \in 1..Len(frames) |-> FrameLine(frames[n])])

dump ==
    LET header == << <<"#", "openage", "terrain", "definition", "file">>, <<>> >>
        version == << <<"version", FORMAT_VERSION>>, <<>> >>
        images == [n \in 1..Len(image_files) |-> ImageLine(DictValues(image_files)[n])]
                  \o << <<>> >>
    IN  IF blendtable = None
        THEN Raise("TypeError")
        ELSE Return(header \o version \o images
                    \o << <<"blendtable", str(PyInt(blendtable.table_id)),
                            blendtable.filename>>, <<>> >>
                    \o << <<"scalefactor", str(scalefactor)>>, <<>> >>
                    \o [n \in 1..Len(layers) |-> LayerLine(DictValues(layers)[n])]
                    \o << <<>> >>
                    \o [n \in 1..Len(frames) |-> FrameLine(frames[n])])

\* A call of dump(): it assigns to no attribute of self.
Dump_consuming_mutant ==
    /\ ret' = dump
    /\ frames' = <<>>
    /\ UNCHANGED <<scalefactor, image_files, blendtable, layers>>
    /\ UNCHANGED hist_vars

Dump ==
    /\ ret' = dump
    /\ UNCHANGED <<scalefactor, image_files, blendtable, layers, frames>>
    /\ UNCHANGED hist_vars

-----------------------------------------------------------------------------
(* The calls a client makes, with their arguments drawn from small sets.   *)

ImageIds == {0, 1}
ImageNames == {"0.png", "1.png"}
LayerIds == {0, 1}
TableIds == {1}
TableNames == {"blend.png"}
Factors == {PyInt(2), PyFloat(1)}

\* frame_idx, layer_id, img_id, xpos, ypos, xsize, ysize, priority, blend_mode
FrameArgs ==
    { <<0, 0, 0, 0, 0, 32, 32, 0, 0>>,
      <<1, 5, 7, 32, 0, 16, 8, 2, 3>> }

Modes == {None, LayerMode_OFF, LayerMode_LOOP}
Positions == {None, PyInt(0), PyInt(3)}
Times == {None, PyFloat(0), PyFloat(1)}
Delays == {None, PyFloat(3)}

\* The layer arguments of the general specification: a few of the above.
FewLayerArgs ==
    { <<LayerMode_LOOP, PyInt(0), PyFloat(1), None>>,
      <<LayerMode_OFF, PyInt(3), None, PyFloat(3)>> }

AddImage ==
    /\ \E i \in ImageIds, f \in ImageNames : add_image(i, f)
    /\ UNCHANGED tex_vars

AddLayer ==
    /\ \E l \in LayerIds, a \in FewLayerArgs : add_layer(l, a[1], a[2], a[3], a[4])
    /\ UNCHANGED tex_vars

AddAnyLayer ==
    /\ \E l \in LayerIds, m \in Modes, p \in Positions, t \in Times, d \in Delays :
            add_layer(l, m, p, t, d)
    /\ UNCHANGED tex_vars

AddFrame ==
    /\ \E a \in FrameArgs : add_frame(a)
    /\ UNCHANGED tex_vars

SetBlendtable ==
    /\ \E t \in TableIds, f \in TableNames : set_blendtable(t, f)
    /\ UNCHANGED tex_vars

SetScalefactor ==
    /\ \E x \in Factors : set_scalefactor(x)
    /\ UNCHANGED tex_vars

CallDump ==
    /\ Dump
    /\ UNCHANGED tex_vars

Next ==
    \/ AddImage
    \/ AddLayer
    \/ AddFrame
    \/ SetBlendtable
    \/ SetScalefactor
    \/ CallDump

\* Layers only, with every combination of the optional attributes.
LayerNext ==
    \/ AddAnyLayer
    \/ SetBlendtable
    \/ CallDump

-----------------------------------------------------------------------------
(* Texture                                                                 *)

\* TILE_HALFSIZE["y"], an imported constant: kept symbolic.
TILE_HALFSIZE_y == "TILE_HALFSIZE_y"

\* TextureImage(picture_data, hotspot)
TextureImage(picture_data, hotspot) ==
    [data |-> picture_data,
     hotspot |-> IF hotspot = None THEN <<0, 0>> ELSE hotspot]

\* The frames a source declares: picture, palette number, hotspot.
SourceFrames ==
    { [pic |-> "a", palette_number |-> None, hotspot |-> <<1, 2>>],
      [pic |-> "b", palette_number |-> PyInt(0), hotspot |-> <<3, 4>>],
      [pic |-> "c", palette_number |-> PyInt(1), hotspot |-> <<0, 0>>] }

Tiles == {"t0", "t1"}

SeqsUpTo(S, n) == UNION { [1..k -> S] : k \in 0..n }

SourceKinds == {"SLP", "SMP", "SMX"}

\* palettes: None (the default), or a dict from palette number to ColorTable.
Palettes ==
    { None,
      PyDict(<<[key |-> 0, val |-> [array |-> "pal0"]]>>),
      PyDict(<<[key |-> 0, val |-> [array |-> "pal0"]],
               [key |-> 1, val |-> [array |-> "pal1"]]>>) }

Cutters == {None, PyStr("cutter")}

Inputs ==
    [kind : SourceKinds, main_frames : SeqsUpTo(SourceFrames, MaxMainFrames),
     palettes : Palettes, custom_cutter : Cutters]
    \cup [kind : {"BlendingMode"}, alphamasks : SeqsUpTo(Tiles, MaxMainFrames),
          palettes : {None}, custom_cutter : {None}]
    \cup [kind : {"str"}, palettes : {None}, custom_cutter : {None}]

\* frame.get_picture_data(main_palette)
get_picture_data(frame, main_palette) == [pic |-> frame.pic, palette |-> main_palette]

\* custom_cutter.cut(subtex) returning k pieces, in the order returned.
CutResult(subtex, k) ==
    [n \in 1..k |-> TextureImage([of |-> subtex.data, part |-> n], None)]

\* _to_subtextures(frame, main_palette, custom_cutter), the cutter, when
\* there is one, returning k pieces.
to_subtextures(frame, main_palette, custom_cutter, k) ==
    LET subtex == TextureImage(get_picture_data(frame, main_palette), frame.hotspot)
    IN  IF truthy(custom_cutter) THEN CutResult(subtex, k) ELSE <<subtex>>

\* __init__ is entered: self.frames = [].
TexStart ==
    /\ tex_pc = "idle"
    /\ \E input \in Inputs : tex_input' = input
    /\ tex_frames' = <<>>
    /\ tex_pc' = "dispatch"
    /\ UNCHANGED <<tex_idx, tex_exc, cut_log>>
    /\ UNCHANGED meta_vars

\* isinstance(input_data, (SLP, SMP, SMX))
TexSource ==
    /\ tex_pc = "dispatch"
    /\ tex_input.kind \in {"SLP", "SMP", "SMX"}
    /\ tex_pc' = "loop"
    /\ UNCHANGED <<tex_input, tex_frames, tex_idx, tex_exc, cut_log>>
    /\ UNCHANGED meta_vars

\* isinstance(input_data, BlendingMode): one TextureImage per alpha mask.
TexBlending ==
    /\ tex_pc = "dispatch"
    /\ tex_input.kind = "BlendingMode"
    /\ tex_frames' = [n \in 1..Len(tex_input.alphamasks) |->
                        TextureImage([pic |-> tex_input.alphamasks[n], palette |-> None],
                                     <<0, TILE_HALFSIZE_y>>)]
    /\ tex_pc' = "done"
    /\ UNCHANGED <<tex_input, tex_idx, tex_exc, cut_log>>
    /\ UNCHANGED meta_vars

\* Any other source type.
TexUnknown ==
    /\ tex_pc = "dispatch"
    /\ tex_input.kind \notin {"SLP", "SMP", "SMX", "BlendingMode"}
    /\ tex_exc' = PyStr("Exception")
    /\ tex_pc' = "raised"
    /\ UNCHANGED <<tex_input, tex_frames, tex_idx, cut_log>>
    /\ UNCHANGED meta_vars

\* One iteration of `for frame in input_data.main_frames`, the cutter (when
\* configured) returning k pieces.
TexFrame_prepend_mutant(k) ==
    LET frame == tex_input.main_frames[tex_idx + 1]
        palette_number == frame.palette_number
        main_palette == IF palette_number = None THEN None
                        ELSE PyStr(DictGet(tex_input.palettes.d, palette_number.i).array)
        subs == to_subtextures(frame, main_palette, tex_input.custom_cutter, k)
    IN  /\ tex_pc = "loop"
        /\ tex_idx < Len(tex_input.main_frames)
        /\ palette_number # None =>
              /\ tex_input.palettes # None
              /\ DictHas(tex_input.palettes.d, palette_number.i)
        /\ tex_frames' = subs \o tex_frames
        /\ cut_log' = Append(cut_log, subs)
        /\ tex_idx' = tex_idx + 1
        /\ UNCHANGED <<tex_pc, tex_input, tex_exc>>
        /\ UNCHANGED meta_vars

TexFrame(k) ==
    LET frame == tex_input.main_frames[tex_idx + 1]
        palette_number == frame.palette_number
        main_palette == IF palette_number = None THEN None
                        ELSE PyStr(DictGet(tex_input.palettes.d, palette_number.i).array)
        subs == to_subtextures(frame, main_palette, tex_input.custom_cutter, k)
    IN  /\ tex_pc = "loop"
        /\ tex_idx < Len(tex_input.main_frames)
        /\ palette_number # None =>
              /\ tex_input.palettes # None
              /\ DictHas(tex_input.palettes.d, palette_number.i)
        /\ tex_frames' = tex_frames \o subs
        /\ cut_log' = Append(cut_log, subs)
        /\ tex_idx' = tex_idx + 1
        /\ UNCHANGED <<tex_pc, tex_input, tex_exc>>
        /\ UNCHANGED meta_vars

\* palettes[palette_number] fails: TypeError on the default None, KeyError on
\* a dict without the number.
TexPaletteError ==
    LET frame == tex_input.main_frames[tex_idx + 1]
    IN  /\ tex_pc = "loop"
        /\ tex_idx < Len(tex_input.main_frames)
        /\ frame.palette_number # None
        /\ \/ /\ tex_input.palettes = None
              /\ tex_exc' = PyStr("TypeError")
           \/ /\ tex_input.palettes # None
              /\ ~DictHas(tex_input.palettes.d, frame.palette_number.i)
              /\ tex_exc' = PyStr("KeyError")
        /\ tex_pc' = "raised"
        /\ UNCHANGED <<tex_input, tex_frames, tex_idx, cut_log>>
        /\ UNCHANGED meta_vars

\* The loop is exhausted and __init__ returns.
TexFinish ==
    /\ tex_pc = "loop"
    /\ tex_idx = Len(tex_input.main_frames)
    /\ tex_pc' = "done"
    /\ UNCHANGED <<tex_input, tex_frames, tex_idx, tex_exc, cut_log>>
    /\ UNCHANGED meta_vars

\* Without a cutter nothing is cut: k plays no part and is fixed to 1.
TexCut ==
    /\ tex_pc = "loop"
    /\ \E k \in 0..MaxPieces :
        /\ truthy(tex_input.custom_cutter) \/ k = 1
        /\ TexFrame(k)

TexNext ==
    \/ TexStart
    \/ TexSource
    \/ TexBlending
    \/ TexUnknown
    \/ TexCut
    \/ TexPaletteError
    \/ TexFinish

TexInit0 ==
    /\ tex_pc = "idle"
    /\ tex_input = None
    /\ tex_frames = <<>>
    /\ tex_idx = 0
    /\ tex_exc = None
    /\ cut_log = <<>>

Init == MetaInit /\ TexInit0

Spec == Init /\ [][Next]_vars

LayerSpec == Init /\ [][LayerNext]_vars

TexSpec == Init /\ [][TexNext]_vars

-----------------------------------------------------------------------------
(* What the claims read off the text, stated with literal tables rather    *)
(* than with the conversions of the model.                                 *)

Returned == ret.kind = "return"
Text == ret.text

LineKind(line) == IF line = <<>> THEN "blank" ELSE line[1]
LinesOf(kind) == SelectSeq(Text, LAMBDA line : LineKind(line) = kind)

SectionRank(line) ==
    CASE LineKind(line) = "#" -> 1
      [] LineKind(line) = "version" -> 2
      [] LineKind(line) = "imagefile" -> 3
      [] LineKind(line) = "blendtable" -> 4
      [] LineKind(line) = "scalefactor" -> 5
      [] LineKind(line) = "layer" -> 6
      [] LineKind(line) = "frame" -> 7
      [] OTHER -> 0

\* The decimal form of the integers the calls use.
Decimal ==
    (0 :> "0") @@ (1 :> "1") @@ (2 :> "2") @@ (3 :> "3") @@ (5 :> "5")
    @@ (7 :> "7") @@ (8 :> "8") @@ (16 :> "16") @@ (32 :> "32")

\* A value that an `if` takes for false: None, 0, 0.0.
Falsy(x) == x \in {None, PyInt(0), PyFloat(0)}

ClauseText(name, x) ==
    CASE x = LayerMode_OFF -> name \o "=off"
      [] x = LayerMode_LOOP -> name \o "=loop"
      [] x = PyInt(3) -> name \o "=3"
      [] x = PyFloat(1) -> name \o "=0.5"
      [] x = PyFloat(3) -> name \o "=1.5"

Clause(name, x) == IF Falsy(x) THEN <<>> ELSE <<ClauseText(name, x)>>

\* The layer line the grammar gives for a layer id and its four attributes.
ExpectedLayerLine(id, attrs) ==
    <<"layer", Decimal[id]>>
    \o Clause("mode", attrs[1])
    \o Clause("position", attrs[2])
    \o Clause("time_per_frame", attrs[3])
    \o Clause("replay_delay", attrs[4])

ExpectedFrameLine(args) ==
    <<"frame">> \o [n \in 1..9 |-> Decimal[args[n]]]

-----------------------------------------------------------------------------
(* C1 *)

-----------------------------------------------------------------------------
(* C2 *)

\* Consecutive non-blank lines of the text: no non-blank line between them.
Adjacent(a, b) ==
    /\ a < b
    /\ Text[a] # <<>>
    /\ Text[b] # <<>>
    /\ \A c \in (a + 1)..(b - 1) : Text[c] = <<>>

\* C2 (as stated): the sections appear in the order header, version,
\* imagefile, blendtable, scalefactor, layer, frame, and every two consecutive
\* sections are separated by exactly one blank line, in every state with the
\* blend table set, the states with no image or no layer included.
C2_Original ==
    Returned =>
        \A a, b \in 1..Len(Text) :
            Adjacent(a, b) =>
                /\ SectionRank(Text[a]) > 0
                /\ SectionRank(Text[a]) <= SectionRank(Text[b])
                /\ SectionRank(Text[a]) = SectionRank(Text[b]) => b = a + 1
                /\ SectionRank(Text[a]) < SectionRank(Text[b]) => b = a + 2

\* C2 (amended): the text is the header, the version, the imagefile lines,
\* the blendtable, the scalefactor, the layer lines and the frame lines in
\* that order, and each of the first six sections is followed by exactly one
\* blank line, also when it has no line: two sections are separated by
\* exactly one blank line unless an empty imagefile or layer section lies
\* between them, which leaves two blank lines in a row.
C2_Amended ==
    Returned =>
        LET n == Cardinality(Range(img_first))
            m == Cardinality(Range(lay_first))
            k == Len(frame_calls)
            blanks == {2, 4, 5 + n, 7 + n, 9 + n, 10 + n + m}
        IN  /\ Len(Text) = 10 + n + m + k
            /\ \A a \in 1..Len(Text) : (Text[a] = <<>>) <=> (a \in blanks)
            /\ SectionRank(Text[1]) = 1
            /\ SectionRank(Text[3]) = 2
            /\ \A a \in 5..(4 + n) : SectionRank(Text[a]) = 3
            /\ SectionRank(Text[6 + n]) = 4
            /\ SectionRank(Text[8 + n]) = 5
            /\ \A a \in (10 + n)..(9 + n + m) : SectionRank(Text[a]) = 6
            /\ \A a \in (11 + n + m)..Len(Text) : SectionRank(Text[a]) = 7

C2_Witness ==
    /\ Returned
    /\ image_files = <<>>
    /\ Len(layers) = 2
    /\ Len(frames) > 0
    /\ Text[4] = <<>>
    /\ Text[5] = <<>>

-----------------------------------------------------------------------------
(* C3 *)

\* C3: every layer line is 'layer <id>' followed by the clauses mode=,
\* position=, time_per_frame=, replay_delay= in that order, a clause being
\* present exactly when its value is not None, 0 or 0.0.
C3_LayerClauses ==
    Returned =>
        /\ Len(LinesOf("layer")) = Len(layers)
        /\ \A n \in 1..Len(layers) :
              LinesOf("layer")[n] =
                  ExpectedLayerLine(layers[n].key,
                                    <<layers[n].val.mode, layers[n].val.position,
                                      layers[n].val.time_per_frame,
                                      layers[n].val.replay_delay>>)

C3_Witness ==
    /\ Returned
    /\ Len(layers) = 2
    /\ lay_latest[0] = <<LayerMode_LOOP, PyInt(0), PyFloat(0), PyFloat(3)>>
    /\ lay_latest[1] = <<None, PyInt(3), PyFloat(1), None>>
    /\ <<"layer", "0", "mode=loop", "replay_delay=1.5">> \in Range(Text)
    /\ <<"layer", "1", "position=3", "time_per_frame=0.5">> \in Range(Text)

-----------------------------------------------------------------------------
(* C4 *)

\* C4: dump writes one imagefile line per distinct image id and one layer
\* line per distinct layer id, each group in the order of the first
\* insertion of its id and with the values of the latest call for that id.
C4_InsertionOrder ==
    Returned =>
        /\ LinesOf("imagefile") =
              [n \in 1..Len(img_first) |->
                  <<"imagefile", Decimal[img_first[n]], img_latest[img_first[n]]>>]
        /\ LinesOf("layer") =
              [n \in 1..Len(lay_first) |->
                  ExpectedLayerLine(lay_first[n], lay_latest[lay_first[n]])]

C4_Witness ==
    /\ Returned
    /\ overwritten = {"image", "layer"}
    /\ img_first = <<1, 0>>
    /\ lay_first = <<1, 0>>
    /\ Len(LinesOf("imagefile")) = 2
    /\ Len(LinesOf("layer")) = 2

-----------------------------------------------------------------------------
(* C5 *)

\* C5: dump writes one frame line per add_frame call, in call order, each
\* 'frame' followed by the nine arguments of the call in signature order.
C5_FrameLines ==
    Returned =>
        LinesOf("frame") =
            [n \in 1..Len(frame_calls) |-> ExpectedFrameLine(frame_calls[n])]

C5_Witness ==
    /\ Returned
    /\ Len(frame_calls) = 2
    /\ frame_calls[1] = frame_calls[2]
    /\ Len(LinesOf("frame")) = 2

-----------------------------------------------------------------------------
(* C6 *)

\* C6: in the text dump returns, every frame line names, as its layer_id and
\* img_id, the id of a layer line and of an imagefile line of that text: the
\* ids of a layer added with add_layer and of an image added with add_image.
C6_FramesReferToRecords ==
    Returned =>
        /\ \A n \in 1..Len(frame_calls) :
              /\ frame_calls[n][2] \in Range(lay_first)
              /\ frame_calls[n][3] \in Range(img_first)
        /\ \A n \in 1..Len(LinesOf("frame")) :
              /\ \E q \in 1..Len(LinesOf("layer")) :
                    LinesOf("layer")[q][2] = LinesOf("frame")[n][3]
              /\ \E q \in 1..Len(LinesOf("imagefile")) :
                    LinesOf("imagefile")[q][2] = LinesOf("frame")[n][4]

-----------------------------------------------------------------------------
(* C8 *)

\* The scalefactor line for the latest set_scalefactor argument.
ExpectedScale ==
    CASE last_factor = None -> "1.0"
      [] last_factor = PyInt(2) -> "2.0"
      [] last_factor = PyFloat(1) -> "0.5"

\* C8: the scale factor is stored as a float, and dump shows the float form
\* of the latest set_scalefactor argument, 1.0 when there was no call.
C8_ScalefactorFloat ==
    /\ scalefactor.t = "float"
    /\ Returned => LinesOf("scalefactor") = << <<"scalefactor", ExpectedScale>> >>

C8_Witness ==
    /\ Returned
    /\ last_factor = PyInt(2)
    /\ <<"scalefactor", "2.0">> \in Range(Text)

-----------------------------------------------------------------------------
(* C9 *)

\* C9: a dump call, whether it returns or fails, leaves scalefactor,
\* image_files, blendtable, layers and frames as they were; a second dump
\* with no setter call in between gives the same outcome; and after a dump
\* that failed for the missing blend table, set_blendtable leaves the records
\* in place and makes dump return.
C9_DumpReadsOnly ==
    [][ /\ ret' # NoCall =>
            /\ UNCHANGED <<scalefactor, image_files, blendtable, layers, frames>>
            /\ ret # NoCall => ret' = ret
        /\ (ret.kind = "raise" /\ blendtable' # None) =>
            /\ UNCHANGED <<scalefactor, image_files, layers, frames>>
            /\ dump'.kind = "return"
      ]_vars

C9_Witness ==
    /\ Returned
    /\ Len(image_files) > 0
    /\ Len(layers) > 0
    /\ Len(frames) = 2

-----------------------------------------------------------------------------
(* C7 *)

CutterConfigured ==
    /\ tex_pc \in {"loop", "done", "raised"}
    /\ tex_input.custom_cutter # None

\* C7: with a cutter configured, a frame for which the cutter returned no
\* piece makes the construction fail with EmptyCutResultError: it never
\* completes with a frame that contributed no subtexture.
C7_EmptyCutFails ==
    /\ (CutterConfigured /\ tex_pc = "done") =>
            \A n \in 1..Len(cut_log) : cut_log[n] # <<>>
    /\ (CutterConfigured /\ tex_pc = "raised"
            /\ \E n \in 1..Len(cut_log) : cut_log[n] = <<>>) =>
            tex_exc = PyStr("EmptyCutResultError")

-----------------------------------------------------------------------------
(* C10 *)

RECURSIVE Flatten(_)
Flatten(seqs) == IF seqs = <<>> THEN <<>> ELSE Head(seqs) \o Flatten(Tail(seqs))

\* C10: for an SLP/SMP/SMX source the frames list is the concatenation, in
\* main_frames order, of the pieces obtained for each frame, every piece
\* coming from its frame; with no cutter it holds one subtexture per frame,
\* at the frame's index, with the frame's picture and hotspot.
C10_FlatInOrder ==
    (tex_pc = "done" /\ tex_input.kind \in SourceKinds) =>
        /\ Len(cut_log) = Len(tex_input.main_frames)
        /\ tex_frames = Flatten(cut_log)
        /\ tex_input.custom_cutter # None =>
              \A n \in 1..Len(cut_log) :
                  \A q \in 1..Len(cut_log[n]) :
                      /\ cut_log[n][q].data.of.pic = tex_input.main_frames[n].pic
                      /\ cut_log[n][q].data.part = q
        /\ tex_input.custom_cutter = None =>
              /\ Len(tex_frames) = Len(tex_input.main_frames)
              /\ \A n \in 1..Len(tex_frames) :
                    /\ tex_frames[n].data.pic = tex_input.main_frames[n].pic
                    /\ tex_frames[n].hotspot = tex_input.main_frames[n].hotspot

C10_Witness ==
    /\ tex_pc = "done"
    /\ tex_input.kind = "SMX"
    /\ tex_input.custom_cutter # None
    /\ Len(tex_input.main_frames) = 2
    /\ tex_input.main_frames[1].pic # tex_input.main_frames[2].pic
    /\ Len(cut_log[1]) = 2
    /\ Len(cut_log[2]) = 1
    /\ Len(tex_frames) = 3

====
